---- MODULE Spec2Model ----
(***************************************************************************)
(* Model of suit/admin.py (django-suit): the sortable mixin family, the    *)
(* save-time sequence assignment, the forced change-list ordering and the  *)
(* two load-time compatibility patches.                                    *)
(***************************************************************************)
EXTENDS Integers, Sequences, FiniteSets, TLC

(***************************************************************************)
(* Bounds of the model.                                                    *)
(***************************************************************************)
\* primary keys the table hands out: 1..MaxPk
MaxPk == 3
\* rows the creations-and-deletions specification adds beyond them
MaxNew == 1
\* largest sortable value a row may hold in the model
MaxOrder == 3
\* concurrent requests creating a row
NumReq == 2

(***************************************************************************)
(* State.                                                                  *)
(*   rows      the model's table: primary key -> sortable value            *)
(*             (<<>> is NULL, <<v>> is the integer v)                      *)
(*   nextpk    the table's auto-increment counter                          *)
(*   last      the last sequential save_model / delete call                *)
(*   freed     sortable values of rows that have been deleted              *)
(*   pc, local, writes   the requests of the concurrent specification      *)
(*   conf      the attributes an admin class declares                      *)
(*   inst      the attributes of the instance __init__ has built           *)
(*   fieldsets, fscall   a stacked inline's declared fieldsets and the     *)
(*             outcome of the get_fieldsets calls on them                  *)
(*   changelist   a change-list view of a sortable admin                   *)
(*   loader, site   the position of the module's load and what it patched  *)
(*   widgets, rendered   SortableListForm.Meta.widgets['order'] and the    *)
(*             widgets the inlines handed to the framework                 *)
(***************************************************************************)
VARIABLES rows, nextpk, last, freed, pc, local, writes, conf, inst,
          fieldsets, fscall, changelist, loader, site, widgets, rendered

rowVars == <<rows, nextpk, last, freed>>
reqVars == <<pc, local, writes>>
initVars == <<conf, inst>>
fsVars == <<fieldsets, fscall>>
clVars == <<changelist>>
loadVars == <<loader, site>>
wVars == <<widgets, rendered>>
vars == <<rows, nextpk, last, freed, pc, local, writes, conf, inst,
          fieldsets, fscall, changelist, loader, site, widgets, rendered>>

\* SortableModelAdminBase.sortable
sortable == "order"

None == <<>>
Some(v) == <<v>>

Pks == 1..MaxPk
OrderVals == 0..MaxOrder
OptOrder == {None} \cup {Some(v) : v \in OrderVals}
Req == 1..NumReq

\* every table over the primary keys handed out so far
Tables == UNION {[S -> OptOrder] : S \in SUBSET Pks}

Maximum(S) == CHOOSE m \in S : \A x \in S : x <= m

\* sortable values of the rows of table t, NULLs left out (SQL MAX skips them)
Values(t) == {t[k][1] : k \in {j \in DOMAIN t : t[j] # None}}

\* a variant that counts the rows instead of taking their maximum
aggregate_count(t) == IF DOMAIN t = {} THEN None ELSE Some(Cardinality(DOMAIN t))

\* obj.__class__.objects.aggregate(models.Max(self.sortable))['order__max']
aggregate_max(t) == IF Values(t) = {} THEN None ELSE Some(Maximum(Values(t)))

\* a variant that restarts the numbering at every call
next_order_restart(max_order) == 1

\* try: max_order['order__max'] + 1   except TypeError: 1
next_order(max_order) == IF max_order = None THEN 1 ELSE max_order[1] + 1

\* Model.save() as ModelAdmin.save_model calls it: an object without a
\* primary key is inserted under the next one, any other updates its row
saved_pk(obj, npk) == IF obj.pk = 0 THEN npk ELSE obj.pk

\* a variant whose save renumbers every other row behind the saved one
obj_save_renumber(t, obj, npk) ==
    [k \in DOMAIN t \cup {saved_pk(obj, npk)} |->
        IF k = saved_pk(obj, npk) THEN obj.order
        ELSE IF t[k] # None /\ obj.order # None /\ t[k][1] >= obj.order[1]
             THEN Some(t[k][1] + 1) ELSE t[k]]

obj_save(t, obj, npk) ==
    [k \in DOMAIN t \cup {saved_pk(obj, npk)} |->
        IF k = saved_pk(obj, npk) THEN obj.order ELSE t[k]]

\* the object as save_model hands it to ModelAdmin.save_model
with_order(obj, t) ==
    IF obj.pk = 0
    THEN [obj EXCEPT !.order = Some(next_order(aggregate_max(t)))]
    ELSE obj

NoCall == [op |-> "none", obj |-> [pk |-> 0, order |-> None], pk |-> 0,
           max_order |-> None, before |-> <<>>]

ReqIdle == /\ pc = [p \in Req |-> "start"]
           /\ local = [p \in Req |-> [next_order |-> 0, seen |-> 0, pk |-> 0]]
           /\ writes = 0

RowsIdle == /\ rows = <<>>
            /\ nextpk = 1
            /\ last = NoCall
            /\ freed = {}

\* the parts of the state a specification about another part leaves alone
InitIdle == /\ conf = [kind |-> "none"]
            /\ inst = [built |-> FALSE]

FsIdle == /\ fieldsets = <<>>
          /\ fscall = [calls |-> 0, raised |-> FALSE]

ClIdle == changelist = [cls |-> "none", ordering |-> None]

LoadIdle == /\ loader = "unloaded"
            /\ site = [call |-> None]

WIdle == /\ widgets = [attrs |-> None]
         /\ rendered = <<>>

(***************************************************************************)
(* Sequential requests: one save_model call runs to its end.               *)
(***************************************************************************)
\* SortableModelAdmin.save_model(request, obj, form, change)
save_model(obj) ==
    /\ obj.pk = 0 => next_order(aggregate_max(rows)) <= MaxOrder
    /\ obj.pk # 0 => obj.pk \in DOMAIN rows
    /\ rows' = obj_save(rows, with_order(obj, rows), nextpk)
    /\ nextpk' = IF obj.pk = 0 THEN nextpk + 1 ELSE nextpk
    /\ last' = [op |-> IF obj.pk = 0 THEN "create" ELSE "change",
                obj |-> obj,
                pk |-> saved_pk(obj, nextpk),
                max_order |-> aggregate_max(rows),
                before |-> rows]
    /\ UNCHANGED <<freed, reqVars, initVars, fsVars, clVars, loadVars, wVars>>

\* save_model for a new object, while the table hands out keys up to limit
SaveNewUpTo(limit) ==
    /\ nextpk <= limit
    /\ \E o \in OptOrder : save_model([pk |-> 0, order |-> o])

SaveNew == SaveNewUpTo(MaxPk)

SaveExisting == \E k \in Pks, o \in OptOrder : save_model([pk |-> k, order |-> o])

\* the admin's delete view for row k: the row leaves the table, nothing is
\* renumbered
DeleteRow(k) ==
    /\ rows' = [j \in DOMAIN rows \ {k} |-> rows[j]]
    /\ last' = [op |-> "delete", obj |-> [pk |-> k, order |-> rows[k]],
                pk |-> k, max_order |-> None, before |-> rows]
    /\ UNCHANGED <<nextpk, reqVars, initVars, fsVars, clVars, loadVars, wVars>>

Delete == \E k \in DOMAIN rows : DeleteRow(k) /\ UNCHANGED freed

\* a deletion, the value it frees noted
DeleteNoted ==
    \E k \in DOMAIN rows :
        /\ DeleteRow(k)
        /\ freed' = freed \cup (IF rows[k] = None THEN {} ELSE {rows[k][1]})

Init == /\ RowsIdle
        /\ ReqIdle
        /\ InitIdle /\ FsIdle /\ ClIdle /\ LoadIdle /\ WIdle

Next == SaveNew \/ SaveExisting \/ Delete

Spec == Init /\ [][Next]_vars

(***************************************************************************)
(* Sequential creations and deletions only, from a table whose rows hold   *)
(* pairwise distinct sortable values.                                      *)
(***************************************************************************)
Distinct(t) == \A j \in DOMAIN t : \A k \in DOMAIN t : j # k => t[j] # t[k]

InitCreate ==
    /\ rows \in {t \in Tables : Distinct(t) /\ \A k \in DOMAIN t : t[k] # None}
    /\ nextpk \in {n \in 1..(MaxPk + 1) : \A k \in DOMAIN rows : k < n}
    /\ last = NoCall
    /\ freed = {}
    /\ ReqIdle
    /\ InitIdle /\ FsIdle /\ ClIdle /\ LoadIdle /\ WIdle

NextCreate == SaveNewUpTo(MaxPk + MaxNew) \/ DeleteNoted

SpecCreate == InitCreate /\ [][NextCreate]_vars

(***************************************************************************)
(* Concurrent creations: the aggregate query and the INSERT of one         *)
(* save_model call are two database statements, and nothing in save_model  *)
(* keeps another request's statements from running between them.           *)
(***************************************************************************)
\* save_model up to the aggregate: max_order read, next_order computed
ReqAggregate(p) ==
    /\ pc[p] = "start"
    /\ pc' = [pc EXCEPT ![p] = "aggregated"]
    /\ local' = [local EXCEPT ![p] = [next_order |-> next_order(aggregate_max(rows)),
                                      seen |-> writes, pk |-> 0]]
    /\ UNCHANGED <<rowVars, writes, initVars, fsVars, clVars, loadVars, wVars>>

\* a variant that computes the value again when it writes
order_to_write_locked(p) == next_order(aggregate_max(rows))

\* setattr(obj, self.sortable, next_order): the value computed from the read
order_to_write(p) == local[p].next_order

\* the rest of save_model: setattr and ModelAdmin.save_model (the INSERT)
ReqSave(p) ==
    /\ pc[p] = "aggregated"
    /\ rows' = obj_save(rows, [pk |-> 0, order |-> Some(order_to_write(p))], nextpk)
    /\ nextpk' = nextpk + 1
    /\ writes' = writes + 1
    /\ pc' = [pc EXCEPT ![p] = "saved"]
    /\ local' = [local EXCEPT ![p].pk = nextpk]
    /\ UNCHANGED <<last, freed, initVars, fsVars, clVars, loadVars, wVars>>

InitConcurrent ==
    /\ rows \in Tables
    /\ nextpk = MaxPk + 1
    /\ last = NoCall
    /\ freed = {}
    /\ ReqIdle
    /\ InitIdle /\ FsIdle /\ ClIdle /\ LoadIdle /\ WIdle

NextConcurrent == \E p \in Req : ReqAggregate(p) \/ ReqSave(p)

SpecConcurrent == InitConcurrent /\ [][NextConcurrent]_vars

(***************************************************************************)
(* Claims about save_model.                                                *)
(***************************************************************************)
\* C1: save_model for a new row stores 1 when the table has no row with a
\* sortable value (no rows, or the aggregate maximum is None), and N + 1
\* when N is the largest sortable value of the rows there; the value the
\* object carried into the call does not matter.
C1_NewRowGetsMaxPlusOne ==
    last.op = "create" =>
        /\ (\A k \in DOMAIN last.before : last.before[k] = None)
               => rows[last.pk] = <<1>>
        /\ \A N \in 0..(MaxOrder + 1) :
               (/\ \E k \in DOMAIN last.before : last.before[k] = <<N>>
                /\ \A k \in DOMAIN last.before :
                       last.before[k] # None => last.before[k][1] <= N)
               => rows[last.pk] = <<N + 1>>

\* a new row saved over a table holding a NULL row and a valued row, the
\* object carrying another value than the one stored
C1_Witness ==
    /\ last.op = "create"
    /\ \E k \in DOMAIN last.before : last.before[k] = None
    /\ \E k \in DOMAIN last.before : last.before[k] # None /\ last.before[k][1] >= 2
    /\ last.obj.order # None
    /\ last.obj.order # rows[last.pk]

\* C8: save_model for an existing row stores the sortable value the object
\* carries, and a save_model call (new row or existing row) leaves every
\* other row of the table as it was.
C8_NoRenumbering ==
    /\ last.op = "change" => rows[last.pk] = last.obj.order
    /\ last.op \in {"create", "change"} =>
           /\ DOMAIN rows = DOMAIN last.before \cup {last.pk}
           /\ \A k \in DOMAIN last.before \ {last.pk} : rows[k] = last.before[k]

\* an existing row saved with a value that another row already holds and
\* that differs from the one it had
C8_Witness ==
    /\ last.op = "change"
    /\ last.obj.order # None
    /\ last.before[last.pk] # last.obj.order
    /\ \E k \in DOMAIN rows \ {last.pk} : rows[k] = last.obj.order

\* C9: with creations and deletions only, one after the other, from rows
\* holding pairwise distinct values: a new row's value is greater than the
\* value of every row there, so the rows keep pairwise distinct values and
\* no gap is filled.
C9_MonotoneDistinct ==
    /\ Distinct(rows)
    /\ last.op = "create" =>
           \A k \in DOMAIN last.before : last.before[k][1] < rows[last.pk][1]

\* a new row receives the value of a deleted row (the former maximum) while
\* a smaller freed value stays unused and other rows exist
C9_Witness ==
    /\ last.op = "create"
    /\ rows[last.pk][1] \in freed
    /\ DOMAIN last.before # {}
    /\ \E g \in freed : g < rows[last.pk][1] /\ g \notin Values(rows)

\* C2: two requests that create a row and both read the maximum from the
\* same table state (neither wrote before the other read) store the same
\* sortable value in two distinct rows.
C2_SameReadSameValue ==
    \A p \in Req : \A q \in Req :
        (/\ p # q
         /\ pc[p] = "saved"
         /\ pc[q] = "saved"
         /\ local[p].seen = local[q].seen)
        => /\ local[p].pk # local[q].pk
           /\ rows[local[p].pk] = rows[local[q].pk]

\* two distinct rows created by interleaved requests hold the same value
C2_Witness ==
    \E p \in Req : \E q \in Req :
        /\ p # q
        /\ pc[p] = "saved"
        /\ pc[q] = "saved"
        /\ local[p].seen = local[q].seen
        /\ local[p].pk # local[q].pk
        /\ rows[local[p].pk] # None
        /\ rows[local[p].pk] = rows[local[q].pk]

(***************************************************************************)
(* Construction of the admin objects: SortableModelAdmin.__init__ and      *)
(* SortableTabularInlineBase.__init__ over the attributes the class        *)
(* declares.  A declared list is None (unset) or a list or tuple of field  *)
(* names: <<>> is None, <<l>> is the list l.                               *)
(***************************************************************************)
\* longest declared field list
MaxLen == 2

FieldNames == {sortable, "name"}

Lists(n) == UNION {[1..m -> FieldNames] : m \in 0..n}

OptLists == {None} \cup {Some(l) : l \in Lists(MaxLen)}

Range(l) == {l[i] : i \in DOMAIN l}

\* how many times field f stands in list l
Count(f, l) == Cardinality({i \in DOMAIN l : l[i] = f})

\* Python's truth value of a declared list: None and the empty list are false
Truthy(ol) == ol # None /\ ol[1] # <<>>

\* self.x or []
or_empty(ol) == IF Truthy(ol) THEN ol[1] ELSE <<>>

\* if self.sortable not in l: l = list(l) + [self.sortable]
append_sortable(l) == IF sortable \in Range(l) THEN l ELSE l \o <<sortable>>

\* a variant that appends the sortable field to an empty or unset list too
append_if_set_always(ol) == Some(append_sortable(or_empty(ol)))

\* if l and self.sortable not in l: l = list(l) + [self.sortable]
append_if_set(ol) == IF Truthy(ol) THEN Some(append_sortable(ol[1])) ELSE ol

\* SortableModelAdmin.__init__
AdminInit ==
    /\ conf.kind = "admin"
    /\ ~inst.built
    /\ inst' = [built |-> TRUE,
                ordering |-> <<sortable>>,
                list_display |-> append_if_set(conf.list_display),
                list_editable |-> Some(append_sortable(or_empty(conf.list_editable))),
                exclude |-> Some(append_sortable(or_empty(conf.exclude)))]
    /\ UNCHANGED <<conf, rowVars, reqVars, fsVars, clVars, loadVars, wVars>>

\* SortableTabularInlineBase.__init__
TabularInit ==
    /\ conf.kind = "tabular"
    /\ ~inst.built
    /\ inst' = [built |-> TRUE,
                ordering |-> <<sortable>>,
                fields |-> append_if_set(Some(or_empty(conf.fields)))]
    /\ UNCHANGED <<conf, rowVars, reqVars, fsVars, clVars, loadVars, wVars>>

InitObjects ==
    /\ conf \in [kind : {"admin"}, list_display : OptLists,
                 list_editable : OptLists, exclude : OptLists]
                \cup [kind : {"tabular"}, fields : OptLists]
    /\ inst = [built |-> FALSE]
    /\ RowsIdle /\ ReqIdle /\ FsIdle /\ ClIdle /\ LoadIdle /\ WIdle

NextObjects == AdminInit \/ TabularInit

SpecObjects == InitObjects /\ [][NextObjects]_vars

\* occurrences of the sortable field in a declared list, None holding none
Occ(ol) == IF ol = None THEN 0 ELSE Count(sortable, ol[1])

\* C3 as stated: after __init__ every configured list holds the sortable
\* field exactly once, whatever it held before (empty or unset included).
C3_ExactlyOnceAlways ==
    /\ (inst.built /\ conf.kind = "admin") =>
           /\ Occ(inst.list_display) = 1
           /\ Occ(inst.list_editable) = 1
           /\ Occ(inst.exclude) = 1
    /\ (inst.built /\ conf.kind = "tabular") => Occ(inst.fields) = 1

AtLeastOne(n) == IF n = 0 THEN 1 ELSE n

\* C3 amended: after __init__, list_editable and exclude hold the sortable
\* field, and list_display and the inline's fields hold it when they were
\* non-empty before; a list that held it before keeps its occurrences (one
\* if it had one), a list that did not gets exactly one.  An empty or unset
\* list_display stays as it was and empty or unset fields become the empty
\* list: neither holds the sortable field.
C3_OnceUnlessEmptyOrRepeated ==
    /\ (inst.built /\ conf.kind = "admin") =>
           /\ Occ(inst.list_editable) = AtLeastOne(Occ(conf.list_editable))
           /\ Occ(inst.exclude) = AtLeastOne(Occ(conf.exclude))
           /\ IF conf.list_display = None \/ conf.list_display = <<<<>>>>
              THEN inst.list_display = conf.list_display
              ELSE Occ(inst.list_display) = AtLeastOne(Occ(conf.list_display))
    /\ (inst.built /\ conf.kind = "tabular") =>
           IF conf.fields = None \/ conf.fields = <<<<>>>>
           THEN inst.fields = <<<<>>>>
           ELSE Occ(inst.fields) = AtLeastOne(Occ(conf.fields))

\* a tabular inline built from declared fields without the sortable field
C3_Witness ==
    /\ inst.built
    /\ conf.kind = "tabular"
    /\ conf.fields = <<<<"name">>>>
    /\ inst.fields = <<<<"name", sortable>>>>

(***************************************************************************)
(* SortableStackedInlineBase.get_fieldsets over the fieldsets the inline   *)
(* declares.  ModelAdmin.get_fieldsets returns the declared object itself, *)
(* so what one call changes the next call finds.  A group is the 'fields'  *)
(* entry of one (name, options) pair: its field names, and whether it is a *)
(* list (a tuple has no remove and no insert: AttributeError).             *)
(***************************************************************************)
\* most field groups of one inline
MaxGroups == 3
\* most fields of one group
MaxFields == 2
\* most get_fieldsets calls on one inline
MaxCalls == 3

Groups == [fields : Lists(MaxFields), is_list : BOOLEAN]

Layouts == UNION {[1..n -> Groups] : n \in 1..MaxGroups}

\* list.remove(x): the first occurrence of x leaves the list
RemoveFirst(l, x) ==
    LET i == CHOOSE j \in DOMAIN l : l[j] = x /\ \A k \in 1..(j - 1) : l[k] # x
    IN  SubSeq(l, 1, i - 1) \o SubSeq(l, i + 1, Len(l))

\* the loop body for one fieldset: [fields, added, raised] after it
fieldset_step(g, added) ==
    LET has == sortable \in Range(g.fields)
        removed == IF has THEN RemoveFirst(g.fields, sortable) ELSE g.fields
    IN  IF (has \/ ~added) /\ ~g.is_list
        THEN [fields |-> g.fields, added |-> added, raised |-> TRUE]
        ELSE [fields |-> IF added THEN removed ELSE <<sortable>> \o removed,
              added |-> TRUE, raised |-> FALSE]

RECURSIVE fieldsets_loop(_, _, _)
\* for fieldset in fieldsets: ... from fieldset i on
fieldsets_loop(fs, i, added) ==
    IF i > Len(fs) THEN [fieldsets |-> fs, raised |-> FALSE]
    ELSE LET r == fieldset_step(fs[i], added)
         IN  IF r.raised THEN [fieldsets |-> fs, raised |-> TRUE]
             ELSE fieldsets_loop([fs EXCEPT ![i].fields = r.fields], i + 1, r.added)

\* SortableStackedInlineBase.get_fieldsets
get_fieldsets ==
    /\ fscall.calls < MaxCalls
    /\ LET r == fieldsets_loop(fieldsets, 1, FALSE)
       IN  /\ fieldsets' = r.fieldsets
           /\ fscall' = [calls |-> fscall.calls + 1, raised |-> r.raised]
    /\ UNCHANGED <<rowVars, reqVars, initVars, clVars, loadVars, wVars>>

InitFieldsets ==
    /\ fieldsets \in Layouts
    /\ fscall = [calls |-> 0, raised |-> FALSE]
    /\ RowsIdle /\ ReqIdle /\ InitIdle /\ ClIdle /\ LoadIdle /\ WIdle

NextFieldsets == get_fieldsets

SpecFieldsets == InitFieldsets /\ [][NextFieldsets]_vars

RECURSIVE TotalCount(_, _)
\* occurrences of the sortable field in the groups i.. of fs
TotalCount(fs, i) ==
    IF i > Len(fs) THEN 0 ELSE Count(sortable, fs[i].fields) + TotalCount(fs, i + 1)

\* C4: whenever get_fieldsets has returned (once or repeatedly), the
\* sortable field stands exactly once in all the groups together, as the
\* first field of the first group.
C4_OnceAndFirst ==
    (fscall.calls >= 1 /\ ~fscall.raised) =>
        /\ TotalCount(fieldsets, 1) = 1
        /\ fieldsets[1].fields # <<>>
        /\ fieldsets[1].fields[1] = sortable

(***************************************************************************)
(* The change list of a sortable admin: get_changelist names the view      *)
(* class, and the view asks that class for its ordering.                   *)
(***************************************************************************)
\* names a subclass may give its sortable field
SortableNames == {sortable, "position"}

\* names of a model's primary key field
PkNames == {"id", "uuid", "code"}

\* ordering declared on the admin class (None: unset)
DeclaredOrderings == {None, Some(<<"name">>), Some(<<"-name">>)}

\* the request's ordering parameter ("" when absent) and the queryset's
\* own ordering
Requests == [o : {"", "1", "-1"}]
Querysets == [ordered_by : {<<>>, <<"name">>}]

\* a variant that lets the request's ordering parameter decide
get_ordering_by_request(self, request, queryset) ==
    IF request.o = "" THEN <<self.sortable, "-" \o self.pk_name>>
    ELSE <<request.o>> \o queryset.ordered_by

\* SortableChangeList.get_ordering(self, request, queryset)
get_ordering(self, request, queryset) ==
    <<self.sortable, "-" \o self.pk_name>>

\* SortableModelAdmin.get_changelist(self, request)
get_changelist ==
    /\ changelist.cls = "ChangeList"
    /\ changelist' = [changelist EXCEPT !.cls = "SortableChangeList"]
    /\ UNCHANGED <<rowVars, reqVars, initVars, fsVars, loadVars, wVars>>

\* the view built from the class get_changelist returned computes its ordering
ChangeListOrdering ==
    /\ changelist.cls = "SortableChangeList"
    /\ \E request \in Requests, queryset \in Querysets :
           changelist' = [changelist EXCEPT
               !.request = Some(request),
               !.queryset = Some(queryset),
               !.ordering = Some(get_ordering(changelist, request, queryset))]
    /\ UNCHANGED <<rowVars, reqVars, initVars, fsVars, loadVars, wVars>>

InitChangeList ==
    /\ changelist \in [cls : {"ChangeList"}, sortable : SortableNames,
                       pk_name : PkNames, declared : DeclaredOrderings,
                       request : {None}, queryset : {None}, ordering : {None}]
    /\ RowsIdle /\ ReqIdle /\ InitIdle /\ FsIdle /\ LoadIdle /\ WIdle

NextChangeList == get_changelist \/ ChangeListOrdering

SpecChangeList == InitChangeList /\ [][NextChangeList]_vars

\* the descending form of each primary key name
Descending == [id |-> "-id", uuid |-> "-uuid", code |-> "-code"]

\* C5: the ordering of a sortable admin's change list is the two-element
\* list [sortable field, '-' + primary key name], whatever the request, the
\* queryset and the ordering declared on the admin class.
C5_ForcedOrdering ==
    changelist.ordering # None =>
        /\ changelist.cls = "SortableChangeList"
        /\ changelist.ordering[1] = <<changelist.sortable, Descending[changelist.pk_name]>>

\* an ordering computed for a request that asks for another ordering, over
\* an ordered queryset, on an admin class that declares an ordering
C5_Witness ==
    /\ changelist.ordering # None
    /\ changelist.request = Some([o |-> "-1"])
    /\ changelist.queryset = Some([ordered_by |-> <<"name">>])
    /\ changelist.declared = Some(<<"-name">>)
    /\ changelist.ordering = Some(<<"position", "-uuid">>)

(***************************************************************************)
(* The load of the module: the two patches gated by INSTALLED_APPS, then   *)
(* the registration of IncludeBlock; and, once loaded, the framework's     *)
(* calls of ModelAdmin.get_list_filter.                                    *)
(***************************************************************************)
OptionalApps == {"cms", "content_status"}

\* str(model._meta) of the registered models, and Level.model_path values
ModelPaths == {"shop.product", "blog.entry"}

\* the model admins the framework asks for their list filter
Admins == [model_path : ModelPaths, list_filter : {<<>>, <<"status">>}]

\* what the import inside a patch's try block does
import_outcome(app) ==
    IF app \notin site.installed_apps THEN "not_installed"
    ELSE IF app \in site.importable THEN "imported"
    ELSE "ImportError"

\* a variant without the handler: the ImportError leaves the module
on_import_error_raise(next_pc) == "aborted"

\* except ImportError: pass -- the load goes on behind the try statement
on_import_error(next_pc) == next_pc

\* if 'cms' in settings.INSTALLED_APPS: try: ... except ImportError: pass
LoadCms ==
    /\ loader = "cms"
    /\ loader' = IF import_outcome("cms") = "ImportError"
                 THEN on_import_error("content_status")
                 ELSE "content_status"
    /\ site' = IF import_outcome("cms") = "imported"
               THEN [site EXCEPT !.PageForm_widgets = "SuitSplitDateTimeWidget"]
               ELSE site
    /\ UNCHANGED <<rowVars, reqVars, initVars, fsVars, clVars, wVars>>

\* if 'content_status' in settings.INSTALLED_APPS: try: ... except ImportError: pass
LoadContentStatus ==
    /\ loader = "content_status"
    /\ loader' = IF import_outcome("content_status") = "ImportError"
                 THEN on_import_error("register")
                 ELSE "register"
    /\ site' = IF import_outcome("content_status") = "imported"
               THEN [site EXCEPT !.get_list_filter = "db_get_list_filter"]
               ELSE site
    /\ UNCHANGED <<rowVars, reqVars, initVars, fsVars, clVars, wVars>>

\* admin.site.register(suit_models.IncludeBlock): the module's last line
Register ==
    /\ loader = "register"
    /\ loader' = "done"
    /\ site' = [site EXCEPT !.registered = TRUE]
    /\ UNCHANGED <<rowVars, reqVars, initVars, fsVars, clVars, wVars>>

\* a variant that adds the filter for every model
db_get_list_filter_always(self) == self.list_filter \o <<"ContentStatusFilter">>

\* db_get_list_filter(self, request)
db_get_list_filter(self) ==
    IF self.model_path \in site.levels
    THEN self.list_filter \o <<"ContentStatusFilter">>
    ELSE self.list_filter

\* the framework calls admin.get_list_filter(request): the patched method
\* when the load replaced it, ModelAdmin's own (return self.list_filter)
\* otherwise
GetListFilter ==
    /\ loader = "done"
    /\ \E admin \in Admins :
           site' = [site EXCEPT !.call =
               Some([admin |-> admin,
                     result |-> IF site.get_list_filter = "db_get_list_filter"
                                THEN db_get_list_filter(admin)
                                ELSE admin.list_filter])]
    /\ UNCHANGED <<loader, rowVars, reqVars, initVars, fsVars, clVars, wVars>>

InitLoad ==
    /\ loader = "cms"
    /\ site \in [installed_apps : SUBSET OptionalApps,
                 importable : SUBSET OptionalApps,
                 levels : SUBSET ModelPaths,
                 PageForm_widgets : {"default"},
                 get_list_filter : {"default"},
                 registered : {FALSE},
                 call : {None}]
    /\ RowsIdle /\ ReqIdle /\ InitIdle /\ FsIdle /\ ClIdle /\ WIdle

NextLoad == LoadCms \/ LoadContentStatus \/ Register \/ GetListFilter

SpecLoad == InitLoad /\ [][NextLoad]_vars

\* the package of a patch is absent: not listed, or listed and its import
\* raises ImportError
Absent(app) == app \notin site.installed_apps \/ app \notin site.importable

\* C6: with an optional package absent the load never ends in an exception,
\* goes on to the module's last statement, and leaves that package's patch
\* target at the framework default.
C6_AbsentPackagesLeaveDefaults ==
    /\ loader # "aborted"
    /\ loader # "done" => ENABLED (LoadCms \/ LoadContentStatus \/ Register)
    /\ Absent("cms") => site.PageForm_widgets = "default"
    /\ Absent("content_status") => site.get_list_filter = "default"

\* a finished load with cms listed but not importable and content_status
\* not listed
C6_Witness ==
    /\ loader = "done"
    /\ site.registered
    /\ "cms" \in site.installed_apps
    /\ "cms" \notin site.importable
    /\ "content_status" \notin site.installed_apps

\* C7 as stated: with the patch applied, every model admin's filter list is
\* its own list_filter followed by ContentStatusFilter.
C7_FilterForEveryAdmin ==
    (site.call # None /\ site.get_list_filter = "db_get_list_filter") =>
        site.call[1].result = site.call[1].admin.list_filter \o <<"ContentStatusFilter">>

\* C7 amended: with the patch applied, the filter list of a model admin
\* whose model path is the model_path of some Level row is its own
\* list_filter followed by ContentStatusFilter; for every other model admin
\* it is its own list_filter, unchanged.
C7_FilterForAdminsWithLevels ==
    (site.call # None /\ site.get_list_filter = "db_get_list_filter") =>
        /\ (\E l \in site.levels : l = site.call[1].admin.model_path)
               => site.call[1].result =
                      site.call[1].admin.list_filter \o <<"ContentStatusFilter">>
        /\ (\A l \in site.levels : l # site.call[1].admin.model_path)
               => site.call[1].result = site.call[1].admin.list_filter

\* the patched method answers for a model that has a Level row
C7_Witness ==
    /\ site.call # None
    /\ site.get_list_filter = "db_get_list_filter"
    /\ site.levels = {"blog.entry"}
    /\ site.call[1].admin = [model_path |-> "blog.entry", list_filter |-> <<"status">>]
    /\ site.call[1].result = <<"status", "ContentStatusFilter">>

(***************************************************************************)
(* The widget of the sortable field.  SortableListForm.Meta.widgets        *)
(* ['order'] is one object shared by every inline; rendered lists, call by *)
(* call, the widget an inline's formfield_for_dbfield put into kwargs:     *)
(* none, the shared object itself, or a copy with its own attrs.           *)
(***************************************************************************)
\* most formfield_for_dbfield calls followed
MaxRendered == 4

\* NumberInput(attrs={'class': 'hide input-mini suit-sortable'})
SortableListForm_widget == [attrs |-> [class |-> "hide input-mini suit-sortable"]]

\* attrs['class'] += ' suit-sortable-stacked'; attrs['rowclass'] = ...
stacked_attrs(attrs) ==
    [class |-> attrs.class \o " suit-sortable-stacked",
     rowclass |-> " suit-sortable-stacked-row"]

\* a variant that takes the shared widget itself
stacked_widget_shared == "shared"

\* kwargs['widget'] = copy.deepcopy(SortableListForm.Meta.widgets['order'])
stacked_widget == "copy"

\* SortableStackedInlineBase.formfield_for_dbfield(db_field)
StackedFormfield ==
    /\ Len(rendered) < MaxRendered
    /\ \E name \in FieldNames :
        IF name # sortable
        THEN /\ rendered' = Append(rendered,
                    [inline |-> "stacked", field |-> name, widget |-> None])
             /\ UNCHANGED widgets
        ELSE IF stacked_widget = "copy"
        THEN /\ rendered' = Append(rendered,
                    [inline |-> "stacked", field |-> name,
                     widget |-> Some([ref |-> "copy",
                                      attrs |-> stacked_attrs(widgets.attrs)])])
             /\ UNCHANGED widgets
        ELSE /\ rendered' = Append(rendered,
                    [inline |-> "stacked", field |-> name,
                     widget |-> Some([ref |-> "shared"])])
             /\ widgets' = [widgets EXCEPT !.attrs = stacked_attrs(widgets.attrs)]
    /\ UNCHANGED <<rowVars, reqVars, initVars, fsVars, clVars, loadVars>>

\* SortableTabularInlineBase.formfield_for_dbfield(db_field)
TabularFormfield ==
    /\ Len(rendered) < MaxRendered
    /\ \E name \in FieldNames :
           rendered' = Append(rendered,
               [inline |-> "tabular", field |-> name,
                widget |-> IF name = sortable THEN Some([ref |-> "shared"]) ELSE None])
    /\ UNCHANGED <<widgets, rowVars, reqVars, initVars, fsVars, clVars, loadVars>>

InitWidget ==
    /\ widgets = SortableListForm_widget
    /\ rendered = <<>>
    /\ RowsIdle /\ ReqIdle /\ InitIdle /\ FsIdle /\ ClIdle /\ LoadIdle

NextWidget == StackedFormfield \/ TabularFormfield

SpecWidget == InitWidget /\ [][NextWidget]_vars

\* C10: whatever the inlines have rendered, the shared widget's attrs are
\* the class 'hide input-mini suit-sortable' and nothing else; the stacked
\* inline's additions stand on its copy, always the same class string, and
\* the tabular inline hands out the shared widget.
C10_SharedWidgetUntouched ==
    /\ widgets.attrs = [class |-> "hide input-mini suit-sortable"]
    /\ \A i \in DOMAIN rendered :
           /\ (rendered[i].inline = "stacked" /\ rendered[i].field = sortable) =>
                  /\ rendered[i].widget[1].ref = "copy"
                  /\ rendered[i].widget[1].attrs =
                         [class |-> "hide input-mini suit-sortable suit-sortable-stacked",
                          rowclass |-> " suit-sortable-stacked-row"]
           /\ (rendered[i].inline = "tabular" /\ rendered[i].field = sortable) =>
                  rendered[i].widget = Some([ref |-> "shared"])

\* the stacked inline has rendered the sortable field twice and the tabular
\* inline has rendered it after that
C10_Witness ==
    \E i \in DOMAIN rendered : \E j \in DOMAIN rendered : \E k \in DOMAIN rendered :
        /\ i < j
        /\ j < k
        /\ rendered[i].inline = "stacked" /\ rendered[i].field = sortable
        /\ rendered[j].inline = "stacked" /\ rendered[j].field = sortable
        /\ rendered[k].inline = "tabular" /\ rendered[k].field = sortable

====
